---------------------------- MODULE Spec2Model ----------------------------
(***************************************************************************)
(* A model of the crowdfunding front-end page component (Home).            *)
(*                                                                         *)
(* The repository holds iterations of the same component.  "page" is       *)
(* src/app/page.tsx; "legacy" is the first iteration (connect and create   *)
(* only), whose createCampaign has its own retry loop; "memo" is the       *)
(* iteration with memoized callbacks.  A behaviour runs one of them.       *)
(*                                                                         *)
(* The state is the component's React state (ui), the wallet extension     *)
(* object window.solana (solana), the part of the devnet chain the page    *)
(* reads and writes (chain) and the handler invocations in flight (task).  *)
(* An invocation that returns leaves task; completed holds it for the one  *)
(* state that follows its return.                                          *)
(* A handler is an async function: the code between two awaits runs        *)
(* atomically on the JavaScript thread, so each action below is either the *)
(* start of a handler (up to its first pending await) or the resumption    *)
(* of one pending await together with all the code up to the next one.     *)
(* A handler reads the React state through the closure of the render it    *)
(* was created in: the values are captured when the invocation starts      *)
(* (fields cConnected, cKey, cName, cDesc, cAmount of the task).           *)
(***************************************************************************)
EXTENDS Integers, Sequences, FiniteSets, TLC

VARIABLES
  version,    \* which iteration of the page is running: "page", "legacy", "memo"
  ui,         \* React state of Home (the useState cells)
  solana,     \* window.solana, the wallet extension
  chain,      \* devnet: the wallet's balance and the program's accounts
  task,       \* handler invocations in flight, in the order they were started
  started,    \* number of clicks handled so far
  checks,     \* number of runs of checkIfWalletIsConnected so far
  completed,  \* the invocation the last step completed (kind Null: none)
  twin        \* "pair" only: the memoized page run beside page.tsx

vars == <<version, ui, solana, chain, task, started, checks, completed, twin>>

-----------------------------------------------------------------------------
(* Bounds of the model *)

MaxTasks == 2        \* clicks per behaviour of the page
MaxLegacyTasks == 1  \* clicks per behaviour of the legacy page
MaxAccounts == 3     \* program accounts on the chain

(* Program constants *)

LAMPORTS_PER_SOL == 1000000000
maxAttempts == 4
RetryDelayUnit == 800
AirdropSettleDelay == 1000

Null == "null"                         \* JavaScript null in a string-typed cell
WalletKey == "Wa11etPubKey"            \* the extension's only account
NameInputs == {"", "  ", "demo"}
AmountInputs == {"0.1", "", "0", "-1", "abc"}
Balances == {40000000, 100000000}

-----------------------------------------------------------------------------
(* JavaScript strings and numbers *)

Char(s, i) == SubSeq(s, i, i)

\* String.prototype.includes
Includes(s, p) ==
  \E i \in 1..(Len(s) - Len(p) + 1) : SubSeq(s, i, i + Len(p) - 1) = p

IsSpace(c) == c = " "

RECURSIVE TrimStart(_)
TrimStart(s) ==
  IF Len(s) > 0 /\ IsSpace(Char(s, 1)) THEN TrimStart(SubSeq(s, 2, Len(s))) ELSE s

RECURSIVE TrimEnd(_)
TrimEnd(s) ==
  IF Len(s) > 0 /\ IsSpace(Char(s, Len(s)))
  THEN TrimEnd(SubSeq(s, 1, Len(s) - 1)) ELSE s

Trim_none(s) == s

\* String.prototype.trim
Trim(s) == TrimEnd(TrimStart(s))

DigitChars == <<"0", "1", "2", "3", "4", "5", "6", "7", "8", "9">>
IsDigit(c) == \E k \in 1..10 : DigitChars[k] = c
DigitVal(c) == (CHOOSE k \in 1..10 : DigitChars[k] = c) - 1

RECURSIVE Pow10(_)
Pow10(n) == IF n = 0 THEN 1 ELSE 10 * Pow10(n - 1)

\* number of decimal digits of s from position i on
RECURSIVE DigitRun(_, _)
DigitRun(s, i) ==
  IF i <= Len(s) /\ IsDigit(Char(s, i)) THEN 1 + DigitRun(s, i + 1) ELSE 0

\* value of the n digits of s from position i on
RECURSIVE DigitsVal(_, _, _)
DigitsVal(s, i, n) ==
  IF n = 0 THEN 0 ELSE DigitsVal(s, i, n - 1) * 10 + DigitVal(Char(s, i + n - 1))

\* A JavaScript number as a decimal: (-1)^neg * m / 10^d, or NaN.
NaN == [nan |-> TRUE, neg |-> FALSE, m |-> 0, d |-> 0]

\* parseFloat: leading whitespace, a sign, digits, a fraction; the longest
\* such prefix is the value, and NaN when it holds no digit.
parseFloat(str) ==
  LET s == TrimStart(str)
      hasSign == Len(s) > 0 /\ Char(s, 1) \in {"+", "-"}
      neg == Len(s) > 0 /\ Char(s, 1) = "-"
      p == IF hasSign THEN 2 ELSE 1
      ni == DigitRun(s, p)
      hasDot == p + ni <= Len(s) /\ Char(s, p + ni) = "."
      nf == IF hasDot THEN DigitRun(s, p + ni + 1) ELSE 0
  IN IF ni + nf = 0 THEN NaN
     ELSE [nan |-> FALSE, neg |-> neg,
           m |-> DigitsVal(s, p, ni) * Pow10(nf) + DigitsVal(s, p + ni + 1, nf),
           d |-> nf]

isNaN(v) == v.nan

\* v <= 0 (false for NaN, as every comparison with NaN)
LeqZero(v) == ~v.nan /\ (v.neg \/ v.m = 0)

\* Math.floor(v * LAMPORTS_PER_SOL) for v > 0
ToLamports(v) ==
  IF v.d <= 9 THEN v.m * (LAMPORTS_PER_SOL \div Pow10(v.d))
  ELSE v.m \div Pow10(v.d - 9)

\* lamports / LAMPORTS_PER_SOL
ToSol(lamports) == [nan |-> FALSE, neg |-> FALSE, m |-> lamports, d |-> 9]

\* how many of the d decimals of m / 10^d are trailing zeros
RECURSIVE TrailingZeros(_, _)
TrailingZeros(m, d) ==
  IF d > 0 /\ m % 10 = 0 THEN 1 + TrailingZeros(m \div 10, d - 1) ELSE 0

StripZeros(v) ==
  LET z == TrailingZeros(v.m, v.d)
  IN [v EXCEPT !.m = @ \div Pow10(z), !.d = @ - z]

RECURSIVE PadFrac(_, _)
PadFrac(f, d) == IF d = 0 THEN "" ELSE PadFrac(f \div 10, d - 1) \o ToString(f % 10)

\* Number to string, as a template literal formats it
NumToString(v) ==
  IF v.nan THEN "NaN"
  ELSE LET w == StripZeros(v)
       IN (IF w.neg /\ w.m # 0 THEN "-" ELSE "")
          \o ToString(w.m \div Pow10(w.d))
          \o (IF w.d > 0 THEN "." \o PadFrac(w.m % Pow10(w.d), w.d) ELSE "")

-----------------------------------------------------------------------------
(* Errors thrown by the page and by the libraries it calls *)

Error(msg) == [name |-> "Error", code |-> 0, message |-> msg]
NoError == [name |-> Null, code |-> 0, message |-> ""]

ErrPhantomMissing == Error("Phantom wallet not available. Please install Phantom Wallet.")
ErrNotConnected == Error("Wallet is not connected. Please connect the wallet first.")
ErrBlockhashNotFound ==
  Error("failed to send transaction: Transaction simulation failed: Blockhash not found")
ErrBlockhashExpired == Error("Transaction was not confirmed: blockhash expired")
ErrUserRejected == Error("User rejected the request.")
ErrRpc == Error("failed to fetch")
ErrDeclaredMismatch ==
  [name |-> "AnchorError", code |-> 4100,
   message |-> "AnchorError occurred. Error Code: DeclaredProgramIdMismatch."]

\* what provider.sendAndConfirm can throw
SendErrors ==
  {ErrBlockhashNotFound, ErrBlockhashExpired, ErrUserRejected, ErrRpc,
   ErrDeclaredMismatch}

-----------------------------------------------------------------------------
(* State *)

\* useState initial values
InitialUi ==
  [walletStatus |-> Null, isWalletConnected |-> FALSE, publicKey |-> Null,
   campaigns |-> <<>>, loading |-> FALSE, creatingCampaign |-> FALSE,
   donatingCampaign |-> Null, donationAmount |-> "0.1",
   campaignName |-> "", campaignDescription |-> ""]

\* A program account: its address and whether its data decodes as a campaign
Account(k, ok) == [pubkey |-> k, decodes |-> ok]
AccountKeys == <<"cmpA", "cmpB", "cmpC", "cmpD", "cmpE">>

\* A handler invocation. c* are the values of the render's closure; the rest
\* are the handler's locals and a record of what the invocation has done.
NewTask(kind, u) ==
  [kind |-> kind, pc |-> "start",
   cConnected |-> u.isWalletConnected, cKey |-> u.publicKey,
   cName |-> u.campaignName, cDesc |-> u.campaignDescription,
   cAmount |-> u.donationAmount,
   target |-> Null,            \* campaignPubkey of donateToCampaign
   attempt |-> 0,              \* createCampaign's attempt
   lastErr |-> NoError,        \* createCampaign's lastErr
   bhFresh |-> FALSE,          \* transaction.recentBlockhash comes from a
                               \* getLatestBlockhash made after the last failure
   waits |-> <<>>,             \* durations of the retry loop's timers so far
   submits |-> 0,              \* sendAndConfirm calls made
   cause |-> NoError,          \* lastErr when the pending sendAndConfirm was called
   balRead |-> -1,             \* balance returned by the first getBalance
   balAtSubmit |-> -1,         \* chain balance when createCampaign left ensureBalance
   airdrops |-> <<>>,          \* amounts passed to requestAirdrop
   amount |-> NaN,             \* donateToCampaign's `const amount`
   lamports |-> 0,             \* donateToCampaign's lamports
   accts |-> <<>>,             \* getCampaigns' campaignAccounts
   idx |-> 0,                  \* position of getCampaigns' loop
   data |-> <<>>,              \* getCampaigns' campaignsData
   prev |-> <<>>,              \* the campaigns that its setCampaigns replaced
   gc |-> "none",              \* getCampaigns: none, early, fetching, listed, error
   seen |-> [isPhantom |-> FALSE, isConnected |-> FALSE, publicKey |-> Null],
                               \* window.solana as the handler's getProvider read it
   existing |-> FALSE,         \* fetchNullable returned an account
   confirms |-> 0,             \* sendAndConfirm calls that resolved
   result |-> ""]              \* connected, confirmed, failed, invalid, exists

NoTask == NewTask(Null, InitialUi)

Frame(u, t) == [ui |-> u, t |-> t]

setWalletStatus(f, s) == [f EXCEPT !.ui.walletStatus = s]
setIsWalletConnected(f, b) == [f EXCEPT !.ui.isWalletConnected = b]
setPublicKey(f, k) == [f EXCEPT !.ui.publicKey = k]
\* a setter that would keep the longer of the two lists
setCampaigns_keepLonger(f, c) ==
  IF Len(c) < Len(f.ui.campaigns) THEN f ELSE [f EXCEPT !.ui.campaigns = c]

setCampaigns(f, c) == [f EXCEPT !.ui.campaigns = c]
setLoading(f, b) == [f EXCEPT !.ui.loading = b]
setCreatingCampaign(f, b) == [f EXCEPT !.ui.creatingCampaign = b]
setDonatingCampaign(f, k) == [f EXCEPT !.ui.donatingCampaign = k]
setDonationAmount(f, a) == [f EXCEPT !.ui.donationAmount = a]
setCampaignName(f, n) == [f EXCEPT !.ui.campaignName = n]
setCampaignDescription(f, d) == [f EXCEPT !.ui.campaignDescription = d]

goto(f, pc) == [f EXCEPT !.t.pc = pc]
done(f) == goto(f, "done")

-----------------------------------------------------------------------------
(* getProvider: throws unless the extension is Phantom and connected *)

getProviderThrows_phantomOnly(sol) == ~sol.isPhantom

\* (sol is window.solana at the time of the call)
getProviderThrows(sol) == ~sol.isPhantom \/ ~sol.isConnected \/ sol.publicKey = Null

getProviderError(sol) == IF ~sol.isPhantom THEN ErrPhantomMissing ELSE ErrNotConnected

-----------------------------------------------------------------------------
(* createCampaign and donateToCampaign: catch and finally *)

isDeclaredMismatch(e) ==
  \/ e.code = 4100
  \/ e.name = "AnchorError" /\ Includes(e.message, "DeclaredProgramIdMismatch")

\* (the page's message quotes src/idl.js in backquotes, which a TLA+ string
\* cannot hold)
createErrorStatus(e) ==
  IF isDeclaredMismatch(e)
  THEN "Error creating campaign: DeclaredProgramIdMismatch. Check src/idl.js address or use the correct program id."
  ELSE IF Includes(e.message, "User rejected") \/ Includes(e.message, "User rejected the request")
  THEN "Transaction cancelled by user. Please approve the transaction in your wallet."
  ELSE "Error creating campaign: " \o e.message

createFinally_none(f) == done(f)

\* `finally { setCreatingCampaign(false); }`
createFinally(f) == done(setCreatingCampaign(f, FALSE))

createCatch(f, e) ==
  createFinally(setWalletStatus([f EXCEPT !.t.result = "failed"], createErrorStatus(e)))

donateErrorStatus(e) ==
  IF Includes(e.message, "User rejected") \/ Includes(e.message, "User rejected the request")
  THEN "Donation cancelled by user."
  ELSE "Error donating to campaign: " \o e.message

donateFinally(f) == done(setDonationAmount(setDonatingCampaign(f, Null), "0.1"))

donateCatch(f, e) ==
  donateFinally(setWalletStatus([f EXCEPT !.t.result = "failed"], donateErrorStatus(e)))

-----------------------------------------------------------------------------
(* getCampaigns *)

\* the caller's code after `await getCampaigns()`
gcReturn(f) ==
  CASE f.t.kind = "createCampaign" -> createFinally(f)
    [] f.t.kind = "donateToCampaign" -> donateFinally(f)
    [] OTHER -> done(f)

\* catch and finally of getCampaigns
gcCatch(f, e) ==
  gcReturn(setLoading(
    setWalletStatus([f EXCEPT !.t.gc = "error"], "Error fetching campaigns: " \o e.message),
    FALSE))

\* the guard of a getCampaigns memoized on the first render
gcGuard_firstRender(f) == InitialUi.isWalletConnected

\* `if (!isWalletConnected) return`, with isWalletConnected of the closure
gcGuard(f) == f.t.cConnected

\* the call, up to `await connection.getProgramAccounts(...)`
getCampaignsCall(f, sol) ==
  IF ~gcGuard(f) THEN gcReturn([f EXCEPT !.t.gc = "early"])
  ELSE LET f1 == setLoading(f, TRUE)
       IN IF getProviderThrows(sol) THEN gcCatch(f1, getProviderError(sol))
          ELSE goto([f1 EXCEPT !.t.gc = "fetching"], "gc_getProgramAccounts")

\* the accounts of l that decode, in l's order
RECURSIVE Decoded(_)
Decoded(l) ==
  IF l = <<>> THEN <<>>
  ELSE (IF Head(l).decodes THEN <<Head(l).pubkey>> ELSE <<>>) \o Decoded(Tail(l))

\* the for loop: the next fetch, or setCampaigns and finally
gcLoop(f) ==
  IF f.t.idx <= Len(f.t.accts) THEN goto(f, "gc_fetch")
  ELSE gcReturn(setLoading(
         setCampaigns([f EXCEPT !.t.gc = "listed", !.t.prev = f.ui.campaigns], f.t.data),
         FALSE))

\* getProgramAccounts resolved with accts: the loop starts
gcOnAccounts(f, accts) == gcLoop([f EXCEPT !.t.accts = accts, !.t.idx = 1, !.t.data = <<>>])

campaignFetched_abort(data, a) == IF a.decodes THEN Append(data, a.pubkey) ELSE <<>>

\* one pass of the loop: push the account when its fetch resolved, warn and
\* go on when it rejected
campaignFetched(data, a) == IF a.decodes THEN Append(data, a.pubkey) ELSE data

\* the fetch of the loop's account settled
gcOnFetch(f) ==
  gcLoop([f EXCEPT !.t.idx = @ + 1,
                   !.t.data = campaignFetched(f.t.data, f.t.accts[f.t.idx])])

-----------------------------------------------------------------------------
(* Initial state: the first render, before the mount effect has run *)

NoTwin == Frame(InitialUi, NoTask)

SolanaAbsent == [isPhantom |-> FALSE, isConnected |-> FALSE, publicKey |-> Null]
SolanaIdle == [isPhantom |-> TRUE, isConnected |-> FALSE, publicKey |-> Null]
SolanaConnected == [isPhantom |-> TRUE, isConnected |-> TRUE, publicKey |-> WalletKey]

InitAccounts ==
  {<<Account(AccountKeys[1], FALSE), Account(AccountKeys[2], TRUE)>>}

Init ==
  /\ version \in {"page", "legacy", "memo"}
  /\ ui = InitialUi
  /\ solana \in {SolanaAbsent, SolanaIdle, SolanaConnected}
  /\ chain \in [balance : Balances, programAccounts : InitAccounts]
  /\ task = <<>>
  /\ started = 0
  /\ checks = 0
  /\ completed = NoTask
  /\ twin = NoTwin

Pending(i, pc) == i \in 1..Len(task) /\ task[i].pc = pc

\* the frame of invocation i
At(i) == Frame(ui, task[i])

\* a new invocation, with the closure of the current render
Fresh(kind) == Frame(ui, NewTask(kind, ui))

Without(i) == SubSeq(task, 1, i - 1) \o SubSeq(task, i + 1, Len(task))

\* the step starts an invocation and leaves it at f
Launch(f) ==
  /\ UNCHANGED <<version, twin>>
  /\ ui' = f.ui
  /\ IF f.t.pc = "done"
     THEN task' = task /\ completed' = f.t
     ELSE task' = Append(task, f.t) /\ completed' = NoTask

\* a click starts an invocation
Begin(f) ==
  /\ started < (IF version = "legacy" THEN MaxLegacyTasks ELSE MaxTasks)
  /\ started' = started + 1
  /\ Launch(f)
  /\ UNCHANGED checks

\* the step resumes invocation i and leaves it at f
Commit(i, f) ==
  /\ UNCHANGED <<version, twin>>
  /\ ui' = f.ui
  /\ IF f.t.pc = "done"
     THEN task' = Without(i) /\ completed' = f.t
     ELSE task' = [task EXCEPT ![i] = f.t] /\ completed' = NoTask
  /\ UNCHANGED <<started, checks>>

\* the mount effect has run
Mounted == checks >= 1

-----------------------------------------------------------------------------
(* The mount effect and the window's load event: checkIfWalletIsConnected.  *)
(* The effect has no dependencies, so both run the first render's closure.  *)
(* The load event fires before the user's first click.                     *)

checkIfWalletIsConnected ==
  /\ version = "page"
  /\ checks < 2
  /\ started = 0
  /\ checks' = checks + 1
  /\ LET f == Frame(ui, NewTask("checkIfWalletIsConnected", InitialUi))
     IN Launch(
          IF solana.isPhantom
          THEN IF solana.isConnected /\ solana.publicKey # Null
               THEN getCampaignsCall(
                      setPublicKey(
                        setIsWalletConnected(
                          setWalletStatus([f EXCEPT !.t.result = "connected"],
                                          "Phantom wallet found and connected!"),
                          TRUE),
                        solana.publicKey),
                      solana)
               ELSE done(setIsWalletConnected(
                           setWalletStatus(f, "Phantom wallet found but not connected."),
                           FALSE))
          ELSE done(setIsWalletConnected(
                      setWalletStatus(f, "Phantom wallet not found. Please install Phantom Wallet"),
                      FALSE)))
  /\ UNCHANGED <<solana, chain, started>>

-----------------------------------------------------------------------------
(* connectWallet: the button of the not-connected container *)

connectWallet ==
  /\ version = "page"
  /\ Mounted
  /\ ~ui.isWalletConnected
  /\ LET f == Fresh("connectWallet")
     IN Begin(
          IF solana.isPhantom THEN goto(f, "connect")
          ELSE done(setWalletStatus(f, "Phantom wallet not found. Please install Phantom Wallet")))
  /\ UNCHANGED <<solana, chain>>

\* `await solana.connect()` resolves: the user approved
connectResolved(i) ==
  /\ Pending(i, "connect")
  /\ solana' = SolanaConnected
  /\ Commit(i, getCampaignsCall(
                 setPublicKey(
                   setIsWalletConnected(
                     setWalletStatus([At(i) EXCEPT !.t.result = "connected"],
                                     "Wallet connected successfully!"),
                     TRUE),
                   WalletKey),
                 SolanaConnected))
  /\ UNCHANGED chain

\* `await solana.connect()` rejects: the user closed the prompt
connectRejected(i) ==
  /\ Pending(i, "connect")
  /\ Commit(i, done(setWalletStatus(At(i), "Error connecting wallet: Please try again.")))
  /\ UNCHANGED <<solana, chain>>

-----------------------------------------------------------------------------
(* getCampaigns: the Refresh button, and the awaits of every getCampaigns *)

RefreshDisabled == ui.loading

getCampaigns ==
  /\ version = "page"
  /\ Mounted
  /\ ui.isWalletConnected
  /\ ~RefreshDisabled
  /\ Begin(getCampaignsCall(Fresh("getCampaigns"), solana))
  /\ UNCHANGED <<solana, chain>>

\* `await connection.getProgramAccounts(...)` resolves
getProgramAccountsResolved(i) ==
  /\ Pending(i, "gc_getProgramAccounts")
  /\ Commit(i, gcOnAccounts(At(i), chain.programAccounts))
  /\ UNCHANGED <<solana, chain>>

getProgramAccountsRejected(i) ==
  /\ Pending(i, "gc_getProgramAccounts")
  /\ Commit(i, gcCatch(At(i), ErrRpc))
  /\ UNCHANGED <<solana, chain>>

\* `await program.account.campaign.fetch(pubkey)` resolves (the data decodes)
\* or rejects (it does not); either way the loop goes on
campaignFetchSettled(i) ==
  /\ Pending(i, "gc_fetch")
  /\ Commit(i, gcOnFetch(At(i)))
  /\ UNCHANGED <<solana, chain>>

-----------------------------------------------------------------------------
(* The wallet extension *)

\* the user disconnects the site in the extension
walletDisconnects ==
  /\ solana.isConnected
  /\ solana' = SolanaIdle
  /\ version # "pair"
  /\ UNCHANGED <<version, ui, chain, task, started, checks, twin>>
  /\ completed' = NoTask

-----------------------------------------------------------------------------
(* ensureBalance(provider, minLamports), called by createCampaign *)

\* Math.floor(0.1 * LAMPORTS_PER_SOL)
thresholdLamports == ToLamports(parseFloat("0.1"))

needsAirdrop_inclusive(balance, minLamports) == balance <= minLamports

\* `if (balance < minLamports)`
needsAirdrop(balance, minLamports) == balance < minLamports

\* the amount passed to conn.requestAirdrop
airdropAmount(minLamports) == minLamports

\* createCampaign after `await ensureBalance(...)`: the instruction and the
\* transaction are built, up to `await getLatestBlockhash('confirmed')`
\* (legacy: the diagnostics, up to `await getAccountInfo(runtimeProgramID)`)
afterEnsureBalance(f) ==
  goto([f EXCEPT !.t.balAtSubmit = chain.balance],
       IF version = "page" THEN "getLatestBlockhash" ELSE "l_getAccountInfo")

\* `await conn.getBalance(pubkey)` resolves with balance
ensureBalanceRead(f, balance, minLamports) ==
  LET f1 == [f EXCEPT !.t.balRead = balance]
  IN IF needsAirdrop(balance, minLamports)
     THEN goto([f1 EXCEPT !.t.airdrops = Append(@, airdropAmount(minLamports))],
               "eb_requestAirdrop")
     ELSE afterEnsureBalance(f1)

-----------------------------------------------------------------------------
(* createCampaign *)

CreateDisabled == ui.creatingCampaign

\* the name field's onChange
onChangeCampaignName(u, v) == [u EXCEPT !.campaignName = v]

\* The user leaves name in the name field and clicks: the handler runs up to
\* `await program.account.campaign.fetchNullable(campaign)`.
\* (The button is also disabled while the name is blank; the handler checks
\* the name itself, and the model calls it with every name.)
createCampaign(name) ==
  /\ version = "page"
  /\ Mounted
  /\ ui.isWalletConnected
  /\ ~CreateDisabled
  /\ LET u == onChangeCampaignName(ui, name)
         f == Frame(u, NewTask("createCampaign", u))
     IN Begin(
          IF ~f.t.cConnected \/ f.t.cKey = Null THEN createCatch(f, ErrNotConnected)
          ELSE IF Trim(f.t.cName) = ""
          THEN createFinally(setWalletStatus([f EXCEPT !.t.result = "invalid"],
                                             "Please enter a campaign name"))
          ELSE LET f1 == [setCreatingCampaign(f, TRUE) EXCEPT !.t.seen = solana]
               IN IF getProviderThrows(solana) THEN createCatch(f1, getProviderError(solana))
                  ELSE goto(f1, "fetchNullable"))
  /\ UNCHANGED <<solana, chain>>

\* fetchNullable resolves with null: ensureBalance starts
fetchNullableNull(i) ==
  /\ Pending(i, "fetchNullable")
  /\ Commit(i, goto(At(i), "eb_getBalance"))
  /\ UNCHANGED <<solana, chain>>

campaignExists_ignored(f) == goto(f, "eb_getBalance")

\* `if (existing) { setWalletStatus(...); setCreatingCampaign(false); return; }`
campaignExists(f) ==
  createFinally(
    setCreatingCampaign(
      setWalletStatus([f EXCEPT !.t.result = "exists"],
                      "Campaign already exists! Please try a different name."),
      FALSE))

\* fetchNullable resolves with an account
fetchNullableFound(i) ==
  /\ Pending(i, "fetchNullable")
  /\ Commit(i, campaignExists([At(i) EXCEPT !.t.existing = TRUE]))
  /\ UNCHANGED <<solana, chain>>

fetchNullableRejected(i) ==
  /\ Pending(i, "fetchNullable")
  /\ Commit(i, createCatch(At(i), ErrRpc))
  /\ UNCHANGED <<solana, chain>>

ensureBalanceGetBalanceResolved(i) ==
  /\ Pending(i, "eb_getBalance")
  /\ Commit(i, ensureBalanceRead(At(i), chain.balance, thresholdLamports))
  /\ UNCHANGED <<solana, chain>>

\* any await of ensureBalance rejects: its catch logs, and it returns
ensureBalanceRejected(i) ==
  /\ \/ Pending(i, "eb_getBalance")
     \/ Pending(i, "eb_requestAirdrop")
     \/ Pending(i, "eb_confirmTransaction")
     \/ Pending(i, "eb_getBalance2")
  /\ Commit(i, afterEnsureBalance(At(i)))
  /\ UNCHANGED <<solana, chain>>

\* `await conn.requestAirdrop(pubkey, minLamports)` resolves: the faucet pays
requestAirdropResolved(i) ==
  /\ Pending(i, "eb_requestAirdrop")
  /\ chain' = [chain EXCEPT !.balance = chain.balance + task[i].airdrops[Len(task[i].airdrops)]]
  /\ Commit(i, goto(At(i), "eb_confirmTransaction"))
  /\ UNCHANGED solana

\* `await conn.confirmTransaction(sig, 'confirmed')` resolves; the timer starts
airdropConfirmed(i) ==
  /\ Pending(i, "eb_confirmTransaction")
  /\ Commit(i, goto(At(i), "eb_timer"))
  /\ UNCHANGED <<solana, chain>>

\* the timer of AirdropSettleDelay ms fires; the balance is read again
airdropTimerFired(i) ==
  /\ Pending(i, "eb_timer")
  /\ Commit(i, goto(At(i), "eb_getBalance2"))
  /\ UNCHANGED <<solana, chain>>

\* the second getBalance resolves (newBal is only logged)
ensureBalanceDone(i) ==
  /\ Pending(i, "eb_getBalance2")
  /\ Commit(i, afterEnsureBalance(At(i)))
  /\ UNCHANGED <<solana, chain>>

-----------------------------------------------------------------------------
(* createCampaign: the transaction and the retry loop *)

isBlockhashError_any(msg) == TRUE

\* `msg.includes('Blockhash not found') || msg.includes('blockhash expired')`
isBlockhashError(msg) ==
  Includes(msg, "Blockhash not found") \/ Includes(msg, "blockhash expired")

retryDelay_fixed(attempt) == RetryDelayUnit

\* `setTimeout(res, 800 * attempt)`
retryDelay(attempt) == RetryDelayUnit * attempt

retryRefresh_skip(f, latest) == f

\* `transaction.recentBlockhash = latest.blockhash` in the catch of the loop
retryRefresh(f, latest) == [f EXCEPT !.t.bhFresh = latest]

afterLoop_noThrow(f, sol) ==
  getCampaignsCall(
    setWalletStatus([f EXCEPT !.t.result = "confirmed"], "Campaign created successfully!"),
    sol)

\* after the loop: `if (lastErr) throw lastErr`, else the success path up to
\* the first await of getCampaigns
afterLoop(f, sol) ==
  IF f.t.lastErr # NoError THEN createCatch(f, f.t.lastErr)
  ELSE getCampaignsCall(
         setCampaignDescription(
           setCampaignName(
             setWalletStatus([f EXCEPT !.t.result = "confirmed"],
                             "Campaign created successfully!"),
             ""),
           ""),
         sol)

\* `while (attempt < maxAttempts) { attempt += 1; ... sendAndConfirm(...)`
loopHead(f, sol) ==
  IF f.t.attempt < maxAttempts
  THEN goto([f EXCEPT !.t.attempt = @ + 1, !.t.submits = @ + 1,
                      !.t.cause = f.t.lastErr],
            "sendAndConfirm")
  ELSE afterLoop(f, sol)

\* the first getLatestBlockhash resolves; simulateTransaction is called
latestBlockhashResolved(i) ==
  /\ Pending(i, "getLatestBlockhash")
  /\ Commit(i, goto([At(i) EXCEPT !.t.bhFresh = TRUE], "simulateTransaction"))
  /\ UNCHANGED <<solana, chain>>

\* getLatestBlockhash or simulateTransaction rejects: the outer catch
beforeLoopRejected(i) ==
  /\ Pending(i, "getLatestBlockhash") \/ Pending(i, "simulateTransaction")
  /\ Commit(i, createCatch(At(i), ErrRpc))
  /\ UNCHANGED <<solana, chain>>

\* simulateTransaction resolves (its result is only logged); the loop starts
simulateResolved(i) ==
  /\ Pending(i, "simulateTransaction")
  /\ Commit(i, loopHead(At(i), solana))
  /\ UNCHANGED <<solana, chain>>

\* sendAndConfirm resolves: the campaign account now exists
createConfirmed(i) ==
  /\ Pending(i, "sendAndConfirm")
  /\ task[i].kind = "createCampaign"
  /\ Len(chain.programAccounts) < MaxAccounts
  /\ chain' = [chain EXCEPT !.programAccounts =
                 Append(@, Account(AccountKeys[Len(@) + 1], TRUE))]
  /\ Commit(i, afterLoop([At(i) EXCEPT !.t.lastErr = NoError, !.t.cause = NoError,
                                       !.t.confirms = @ + 1],
                         solana))
  /\ UNCHANGED solana

\* sendAndConfirm rejects with e
createRejected(i, e) ==
  /\ Pending(i, "sendAndConfirm")
  /\ task[i].kind = "createCampaign"
  /\ LET f == [At(i) EXCEPT !.t.lastErr = e, !.t.cause = NoError, !.t.bhFresh = FALSE]
     IN Commit(i, IF isBlockhashError(e.message)
                  THEN goto(f, "retry_getLatestBlockhash")
                  ELSE afterLoop(f, solana))
  /\ UNCHANGED <<solana, chain>>

\* the catch's getLatestBlockhash resolves; the backoff timer starts
retryBlockhashResolved(i) ==
  /\ Pending(i, "retry_getLatestBlockhash")
  /\ Commit(i, goto([retryRefresh(At(i), TRUE)
                       EXCEPT !.t.waits = Append(@, retryDelay(task[i].attempt))],
                    "retry_timer"))
  /\ UNCHANGED <<solana, chain>>

\* the catch's getLatestBlockhash rejects: out of the loop, to the outer catch
retryBlockhashRejected(i) ==
  /\ Pending(i, "retry_getLatestBlockhash")
  /\ Commit(i, createCatch(At(i), ErrRpc))
  /\ UNCHANGED <<solana, chain>>

\* the backoff timer fires: `continue`
retryTimerFired(i) ==
  /\ Pending(i, "retry_timer")
  /\ Commit(i, loopHead(At(i), solana))
  /\ UNCHANGED <<solana, chain>>

-----------------------------------------------------------------------------
(* donateToCampaign(campaignPubkey): the Donate button of a campaign card *)

DonateDisabled(k) == ui.donatingCampaign = k

Listed(k) == \E j \in 1..Len(ui.campaigns) : ui.campaigns[j] = k

invalidAmount_negativeOnly(amount) == isNaN(amount) \/ (~amount.nan /\ amount.neg)

\* `isNaN(amount) || amount <= 0`
invalidAmount(amount) == isNaN(amount) \/ LeqZero(amount)

insufficient_off(balance, lamports) == FALSE

\* `if (balance < lamports)`
insufficient(balance, lamports) == balance < lamports

ErrInsufficient(balance, amount) ==
  Error("Insufficient balance. You have " \o NumToString(ToSol(balance))
        \o " SOL but trying to donate " \o NumToString(amount) \o " SOL")

\* the amount field's onChange
onChangeDonationAmount(u, v) == [u EXCEPT !.donationAmount = v]

\* The user leaves v in the amount field and clicks the Donate button of
\* campaign k: the handler runs up to `await provider.connection.getBalance(...)`
\* the handler of the render f, called with campaign k, up to its first await
donateClick(f, k, sol) ==
  LET amount == parseFloat(f.t.cAmount)
  IN IF ~f.t.cConnected \/ f.t.cKey = Null THEN donateCatch(f, ErrNotConnected)
     ELSE IF invalidAmount(amount)
     THEN donateFinally(setWalletStatus([f EXCEPT !.t.result = "invalid"],
                                        "Please enter a valid donation amount"))
     ELSE LET f1 == [setDonatingCampaign(f, k) EXCEPT !.t.seen = sol,
                                                      !.t.amount = amount]
          IN IF getProviderThrows(sol) THEN donateCatch(f1, getProviderError(sol))
             ELSE goto([f1 EXCEPT !.t.lamports = ToLamports(amount)], "d_getBalance")

\* the handler after getBalance resolved with balance
donateOnBalance(f, balance) ==
  LET f1 == [f EXCEPT !.t.balRead = balance]
  IN IF insufficient(balance, f1.t.lamports)
     THEN donateCatch(f1, ErrInsufficient(balance, f1.t.amount))
     ELSE goto(f1, "d_getLatestBlockhash")

\* the handler after getLatestBlockhash resolved: sendAndConfirm is called
donateOnBlockhash(f) ==
  goto([f EXCEPT !.t.bhFresh = TRUE, !.t.submits = @ + 1], "sendAndConfirm")

\* the handler after sendAndConfirm resolved, up to getCampaigns' first await
donateOnConfirmed(f, sol) ==
  getCampaignsCall(
    setWalletStatus([f EXCEPT !.t.result = "confirmed", !.t.confirms = @ + 1],
                    "Successfully donated " \o NumToString(f.t.amount)
                      \o " SOL to campaign!"),
    sol)

donateToCampaign(k, v) ==
  /\ version = "page"
  /\ Mounted
  /\ ui.isWalletConnected /\ ~ui.loading
  /\ Listed(k)
  /\ ~DonateDisabled(k)
  /\ LET u == onChangeDonationAmount(ui, v)
         f == [Frame(u, NewTask("donateToCampaign", u)) EXCEPT !.t.target = k]
     IN Begin(donateClick(f, k, solana))
  /\ UNCHANGED <<solana, chain>>

\* getBalance resolves; the instruction and the transaction are built, up to
\* `await getLatestBlockhash('confirmed')`
donateBalanceResolved(i) ==
  /\ Pending(i, "d_getBalance")
  /\ Commit(i, donateOnBalance(At(i), chain.balance))
  /\ UNCHANGED <<solana, chain>>

\* getLatestBlockhash resolves; the transaction is sent
donateBlockhashResolved(i) ==
  /\ Pending(i, "d_getLatestBlockhash")
  /\ Commit(i, donateOnBlockhash(At(i)))
  /\ UNCHANGED <<solana, chain>>

\* getBalance or getLatestBlockhash rejects
donateRpcRejected(i) ==
  /\ Pending(i, "d_getBalance") \/ Pending(i, "d_getLatestBlockhash")
  /\ Commit(i, donateCatch(At(i), ErrRpc))
  /\ UNCHANGED <<solana, chain>>

\* sendAndConfirm resolves: the lamports have moved to the campaign
donateConfirmed(i) ==
  /\ Pending(i, "sendAndConfirm")
  /\ task[i].kind = "donateToCampaign"
  /\ chain.balance >= task[i].lamports
  /\ chain' = [chain EXCEPT !.balance = @ - task[i].lamports]
  /\ Commit(i, donateOnConfirmed(At(i), solana))
  /\ UNCHANGED solana

donateRejected(i, e) ==
  /\ Pending(i, "sendAndConfirm")
  /\ task[i].kind = "donateToCampaign"
  /\ Commit(i, donateCatch(At(i), e))
  /\ UNCHANGED <<solana, chain>>

-----------------------------------------------------------------------------
(* The first iteration of the page: connect and create only *)

checkIfWalletIsConnected_legacy ==
  /\ version = "legacy"
  /\ checks < 2
  /\ started = 0
  /\ checks' = checks + 1
  /\ LET f == Frame(ui, NewTask("checkIfWalletIsConnected", InitialUi))
     IN Launch(
          IF solana.isPhantom
          THEN IF solana.isConnected /\ solana.publicKey # Null
               THEN done(setPublicKey(
                           setIsWalletConnected(
                             setWalletStatus([f EXCEPT !.t.result = "connected"],
                                             "Phantom wallet found and connected!"),
                             TRUE),
                           solana.publicKey))
               ELSE done(setIsWalletConnected(
                           setWalletStatus(f, "Phantom wallet found but not connected."),
                           FALSE))
          ELSE done(setIsWalletConnected(
                      setWalletStatus(f, "Phantom wallet not found. Please install Phantom Wallet"),
                      FALSE)))
  /\ UNCHANGED <<solana, chain, started>>

connectWallet_legacy ==
  /\ version = "legacy"
  /\ Mounted
  /\ ~ui.isWalletConnected
  /\ LET f == Fresh("connectWallet")
     IN Begin(
          IF solana.isPhantom THEN goto(f, "l_connect")
          ELSE done(setWalletStatus(f, "Phantom wallet not found. Please install Phantom Wallet")))
  /\ UNCHANGED <<solana, chain>>

connectResolved_legacy(i) ==
  /\ Pending(i, "l_connect")
  /\ solana' = SolanaConnected
  /\ Commit(i, done(setPublicKey(
                      setIsWalletConnected(
                        setWalletStatus([At(i) EXCEPT !.t.result = "connected"],
                                        "Wallet connected successfully!"),
                        TRUE),
                      WalletKey)))
  /\ UNCHANGED chain

connectRejected_legacy(i) ==
  /\ Pending(i, "l_connect")
  /\ Commit(i, done(setWalletStatus(At(i), "Error connecting wallet: Please try again.")))
  /\ UNCHANGED <<solana, chain>>

\* catch of the legacy createCampaign (it has no finally)
createCatch_legacy(f, e) ==
  done(setWalletStatus([f EXCEPT !.t.result = "failed"], createErrorStatus(e)))

\* the click, up to the first await of ensureBalance
createCampaign_legacy ==
  /\ version = "legacy"
  /\ Mounted
  /\ ui.isWalletConnected
  /\ LET f == Fresh("createCampaign")
     IN Begin(
          IF ~f.t.cConnected \/ f.t.cKey = Null THEN createCatch_legacy(f, ErrNotConnected)
          ELSE IF getProviderThrows(solana)
          THEN createCatch_legacy([f EXCEPT !.t.seen = solana], getProviderError(solana))
          ELSE goto([f EXCEPT !.t.seen = solana], "eb_getBalance"))
  /\ UNCHANGED <<solana, chain>>

\* after the loop: `if (lastErr) throw lastErr`, else the success message
afterLoop_legacy(f) ==
  IF f.t.lastErr # NoError THEN createCatch_legacy(f, f.t.lastErr)
  ELSE done(setWalletStatus([f EXCEPT !.t.result = "confirmed"],
                            "Campaign created successfully! Address: " \o f.t.target))

\* `while (attempt < maxAttempts) { attempt += 1; ... program.rpc.create(...)`
loopHead_legacy(f) ==
  IF f.t.attempt < maxAttempts
  THEN goto([f EXCEPT !.t.attempt = @ + 1, !.t.submits = @ + 1,
                      !.t.cause = f.t.lastErr],
            "l_rpcCreate")
  ELSE afterLoop_legacy(f)

\* the diagnostics' getAccountInfo settles (a rejection is caught and logged)
diagnosticsSettled(i) ==
  /\ Pending(i, "l_getAccountInfo")
  /\ Commit(i, loopHead_legacy(At(i)))
  /\ UNCHANGED <<solana, chain>>

\* program.rpc.create resolves: the campaign account now exists
rpcCreateResolved(i) ==
  /\ Pending(i, "l_rpcCreate")
  /\ Len(chain.programAccounts) < MaxAccounts
  /\ chain' = [chain EXCEPT !.programAccounts =
                 Append(@, Account(AccountKeys[Len(@) + 1], TRUE))]
  /\ Commit(i, afterLoop_legacy([At(i) EXCEPT !.t.lastErr = NoError, !.t.cause = NoError,
                                              !.t.confirms = @ + 1,
                                              !.t.target = "CampaignPda"]))
  /\ UNCHANGED solana

\* program.rpc.create rejects with e
rpcCreateRejected(i, e) ==
  /\ Pending(i, "l_rpcCreate")
  /\ LET f == [At(i) EXCEPT !.t.lastErr = e, !.t.cause = NoError]
     IN Commit(i, IF isBlockhashError(e.message)
                  THEN goto(f, "l_retryBlockhash")
                  ELSE afterLoop_legacy(f))
  /\ UNCHANGED <<solana, chain>>

\* the inner try's getLatestBlockhash resolves; confirmTransaction is called
retryBlockhashResolved_legacy(i) ==
  /\ Pending(i, "l_retryBlockhash")
  /\ Commit(i, goto(At(i), "l_retryConfirm"))
  /\ UNCHANGED <<solana, chain>>

\* the inner try ends (its confirmTransaction settles, or one of its awaits
\* rejects and the inner catch ignores it); the backoff timer starts
retryInnerTryEnds(i) ==
  /\ Pending(i, "l_retryBlockhash") \/ Pending(i, "l_retryConfirm")
  /\ Commit(i, goto([At(i) EXCEPT !.t.waits = Append(@, retryDelay(task[i].attempt))],
                    "l_retryTimer"))
  /\ UNCHANGED <<solana, chain>>

\* the backoff timer fires: `continue`
retryTimerFired_legacy(i) ==
  /\ Pending(i, "l_retryTimer")
  /\ Commit(i, loopHead_legacy(At(i)))
  /\ UNCHANGED <<solana, chain>>

-----------------------------------------------------------------------------
(* The memoized iteration of the page: the handlers are useCallback hooks     *)
(* whose dependencies name every state they read, and the containers are     *)
(* useMemo values that depend on the handlers, so a click runs the handler   *)
(* of the current render.                                                    *)

\* useEffect(..., [checkIfWalletIsConnected]) and the window's load event
checkIfWalletIsConnected_memo ==
  /\ version = "memo"
  /\ checks < 2
  /\ started = 0
  /\ checks' = checks + 1
  /\ LET f == Frame(ui, NewTask("checkIfWalletIsConnected", InitialUi))
     IN Launch(
          IF solana.isPhantom
          THEN IF solana.isConnected /\ solana.publicKey # Null
               THEN done(setPublicKey(
                           setIsWalletConnected(
                             setWalletStatus([f EXCEPT !.t.result = "connected"],
                                             "Phantom wallet found and connected!"),
                             TRUE),
                           solana.publicKey))
               ELSE done(setIsWalletConnected(
                           setWalletStatus(f, "Phantom wallet found but not connected."),
                           FALSE))
          ELSE done(setIsWalletConnected(
                      setWalletStatus(f, "Phantom wallet not found. Please install Phantom Wallet"),
                      FALSE)))
  /\ UNCHANGED <<solana, chain, started>>

connectWallet_memo ==
  /\ version = "memo"
  /\ Mounted
  /\ ~ui.isWalletConnected
  /\ LET f == Fresh("connectWallet")
     IN Begin(
          IF solana.isPhantom THEN goto(f, "m_connect")
          ELSE done(setWalletStatus(f, "Phantom wallet not found. Please install Phantom Wallet")))
  /\ UNCHANGED <<solana, chain>>

connectResolved_memo(i) ==
  /\ Pending(i, "m_connect")
  /\ solana' = SolanaConnected
  /\ Commit(i, done(setPublicKey(
                      setIsWalletConnected(
                        setWalletStatus([At(i) EXCEPT !.t.result = "connected"],
                                        "Wallet connected successfully!"),
                        TRUE),
                      WalletKey)))
  /\ UNCHANGED chain

\* the catch sets the status and rethrows; nothing handles the rejection
connectRejected_memo(i) ==
  /\ Pending(i, "m_connect")
  /\ Commit(i, done(setWalletStatus(At(i), "Error connecting wallet: Please try again.")))
  /\ UNCHANGED <<solana, chain>>

\* getCampaigns up to `await connection.getProgramAccounts(...)`
getCampaignsCall_memo(f, sol) ==
  LET g == getCampaignsCall(f, sol)
  IN IF g.t.pc = "gc_getProgramAccounts" THEN goto(g, "m_getProgramAccounts") ELSE g

\* the value of one callback of campaignAccounts.map: the account, or null
fetchOrNull(a) == IF a.decodes THEN a.pubkey ELSE Null

\* campaignsData.filter(Boolean)
RECURSIVE filterBoolean(_)
filterBoolean(l) ==
  IF l = <<>> THEN <<>>
  ELSE (IF Head(l) # Null THEN <<Head(l)>> ELSE <<>>) \o filterBoolean(Tail(l))

\* `await Promise.all(...)`: pending until every callback has settled (idx
\* counts them), then setCampaigns and finally
gcAll_memo(f) ==
  IF f.t.idx < Len(f.t.accts) THEN goto(f, "m_fetchAll")
  ELSE LET campaignsData == [j \in 1..Len(f.t.accts) |-> fetchOrNull(f.t.accts[j])]
           listed == filterBoolean(campaignsData)
       IN gcReturn(setLoading(
                     setCampaigns([f EXCEPT !.t.gc = "listed", !.t.data = listed,
                                            !.t.prev = f.ui.campaigns],
                                  listed),
                     FALSE))

\* getProgramAccounts resolved with accts: every fetch is started
gcOnAccounts_memo(f, accts) ==
  gcAll_memo([f EXCEPT !.t.accts = accts, !.t.idx = 0, !.t.data = <<>>])

\* one of the fetches settled
gcOnFetch_memo(f) == gcAll_memo([f EXCEPT !.t.idx = @ + 1])

\* the Refresh button
getCampaigns_memo ==
  /\ version = "memo"
  /\ Mounted
  /\ ui.isWalletConnected
  /\ ~RefreshDisabled
  /\ Begin(getCampaignsCall_memo(Fresh("getCampaigns"), solana))
  /\ UNCHANGED <<solana, chain>>

getProgramAccountsResolved_memo(i) ==
  /\ Pending(i, "m_getProgramAccounts")
  /\ Commit(i, gcOnAccounts_memo(At(i), chain.programAccounts))
  /\ UNCHANGED <<solana, chain>>

getProgramAccountsRejected_memo(i) ==
  /\ Pending(i, "m_getProgramAccounts")
  /\ Commit(i, gcCatch(At(i), ErrRpc))
  /\ UNCHANGED <<solana, chain>>

campaignFetchSettled_memo(i) ==
  /\ Pending(i, "m_fetchAll")
  /\ Commit(i, gcOnFetch_memo(At(i)))
  /\ UNCHANGED <<solana, chain>>

\* createCampaign: no retry loop, and a balance check instead of the airdrop

\* 0.05 * LAMPORTS_PER_SOL
minBalance_memo == ToLamports(parseFloat("0.05"))

\* (the catch's first branch reads error.logs, which no error of the model has)
createErrorStatus_memo(e) ==
  IF Includes(e.message, "User rejected") THEN "Transaction cancelled by user."
  ELSE "Error creating campaign: " \o e.message

createCatch_memo(f, e) ==
  createFinally(setWalletStatus([f EXCEPT !.t.result = "failed"], createErrorStatus_memo(e)))

\* the handler up to `await provider.connection.getBalance(...)`
createClick_memo(f, sol) ==
  IF ~f.t.cConnected \/ f.t.cKey = Null \/ Trim(f.t.cName) = ""
  THEN done(setWalletStatus([f EXCEPT !.t.result = "invalid"],
                            IF Trim(f.t.cName) = "" THEN "Please enter a campaign name"
                            ELSE "Wallet is not connected"))
  ELSE LET f1 == [setCreatingCampaign(f, TRUE) EXCEPT !.t.seen = sol]
       IN IF getProviderThrows(sol) THEN createCatch_memo(f1, getProviderError(sol))
          ELSE goto(f1, "m_c_getBalance")

createCampaign_memo(name) ==
  /\ version = "memo"
  /\ Mounted
  /\ ui.isWalletConnected
  /\ ~CreateDisabled
  /\ LET u == onChangeCampaignName(ui, name)
     IN Begin(createClick_memo(Frame(u, NewTask("createCampaign", u)), solana))
  /\ UNCHANGED <<solana, chain>>

\* getBalance resolves: `if (balance < minBalance) { setWalletStatus(...); return; }`
createBalanceResolved_memo(i) ==
  /\ Pending(i, "m_c_getBalance")
  /\ LET f == At(i)
     IN Commit(i, IF chain.balance < minBalance_memo
                  THEN createFinally(
                         setWalletStatus(
                           [f EXCEPT !.t.result = "insufficient"],
                           "Insufficient balance. You have "
                             \o NumToString(ToSol(chain.balance))
                             \o " SOL but need at least 0.05 SOL."))
                  ELSE goto(f, "m_c_getLatestBlockhash"))
  /\ UNCHANGED <<solana, chain>>

createBlockhashResolved_memo(i) ==
  /\ Pending(i, "m_c_getLatestBlockhash")
  /\ Commit(i, goto([At(i) EXCEPT !.t.bhFresh = TRUE, !.t.submits = @ + 1,
                                  !.t.attempt = @ + 1],
                    "m_c_sendAndConfirm"))
  /\ UNCHANGED <<solana, chain>>

createRpcRejected_memo(i) ==
  /\ Pending(i, "m_c_getBalance") \/ Pending(i, "m_c_getLatestBlockhash")
  /\ Commit(i, createCatch_memo(At(i), ErrRpc))
  /\ UNCHANGED <<solana, chain>>

createConfirmed_memo(i) ==
  /\ Pending(i, "m_c_sendAndConfirm")
  /\ Len(chain.programAccounts) < MaxAccounts
  /\ chain' = [chain EXCEPT !.programAccounts =
                 Append(@, Account(AccountKeys[Len(@) + 1], TRUE))]
  /\ Commit(i, getCampaignsCall_memo(
                 setCampaignDescription(
                   setCampaignName(
                     setWalletStatus([At(i) EXCEPT !.t.result = "confirmed",
                                                   !.t.confirms = @ + 1],
                                     "Campaign created successfully!"),
                     ""),
                   ""),
                 solana))
  /\ UNCHANGED solana

createRejected_memo(i, e) ==
  /\ Pending(i, "m_c_sendAndConfirm")
  /\ Commit(i, createCatch_memo([At(i) EXCEPT !.t.lastErr = e], e))
  /\ UNCHANGED <<solana, chain>>

\* donateToCampaign: the guards are before the try

donateErrorStatus_memo_generic(e) == "Error donating to campaign: " \o e.message

donateErrorStatus_memo(e) ==
  IF Includes(e.message, "User rejected") THEN "Donation cancelled by user."
  ELSE "Error donating to campaign: " \o e.message

donateCatch_memo(f, e) ==
  donateFinally(setWalletStatus([f EXCEPT !.t.result = "failed"], donateErrorStatus_memo(e)))

\* the handler of the render f, called with campaign k, up to its first await
donateClick_memo(f, k, sol) ==
  LET amount == parseFloat(f.t.cAmount)
  IN IF ~f.t.cConnected \/ f.t.cKey = Null
     THEN done(setWalletStatus([f EXCEPT !.t.result = "failed"], "Wallet is not connected"))
     ELSE IF invalidAmount(amount)
     THEN done(setWalletStatus([f EXCEPT !.t.result = "invalid"],
                               "Please enter a valid donation amount"))
     ELSE LET f1 == [setDonatingCampaign(f, k) EXCEPT !.t.seen = sol,
                                                      !.t.amount = amount]
          IN IF getProviderThrows(sol) THEN donateCatch_memo(f1, getProviderError(sol))
             ELSE goto([f1 EXCEPT !.t.lamports = ToLamports(amount)], "m_d_getBalance")

donateOnBalance_memo(f, balance) ==
  LET f1 == [f EXCEPT !.t.balRead = balance]
  IN IF insufficient(balance, f1.t.lamports)
     THEN donateCatch_memo(f1, ErrInsufficient(balance, f1.t.amount))
     ELSE goto(f1, "m_d_getLatestBlockhash")

donateOnBlockhash_memo(f) ==
  goto([f EXCEPT !.t.bhFresh = TRUE, !.t.submits = @ + 1], "m_d_sendAndConfirm")

donateOnConfirmed_memo(f, sol) ==
  getCampaignsCall_memo(
    setWalletStatus([f EXCEPT !.t.result = "confirmed", !.t.confirms = @ + 1],
                    "Successfully donated " \o NumToString(f.t.amount)
                      \o " SOL to campaign!"),
    sol)

donateToCampaign_memo(k, v) ==
  /\ version = "memo"
  /\ Mounted
  /\ ui.isWalletConnected /\ ~ui.loading
  /\ Listed(k)
  /\ ~DonateDisabled(k)
  /\ LET u == onChangeDonationAmount(ui, v)
         f == [Frame(u, NewTask("donateToCampaign", u)) EXCEPT !.t.target = k]
     IN Begin(donateClick_memo(f, k, solana))
  /\ UNCHANGED <<solana, chain>>

donateBalanceResolved_memo(i) ==
  /\ Pending(i, "m_d_getBalance")
  /\ Commit(i, donateOnBalance_memo(At(i), chain.balance))
  /\ UNCHANGED <<solana, chain>>

donateBlockhashResolved_memo(i) ==
  /\ Pending(i, "m_d_getLatestBlockhash")
  /\ Commit(i, donateOnBlockhash_memo(At(i)))
  /\ UNCHANGED <<solana, chain>>

donateRpcRejected_memo(i) ==
  /\ Pending(i, "m_d_getBalance") \/ Pending(i, "m_d_getLatestBlockhash")
  /\ Commit(i, donateCatch_memo(At(i), ErrRpc))
  /\ UNCHANGED <<solana, chain>>

donateConfirmed_memo(i) ==
  /\ Pending(i, "m_d_sendAndConfirm")
  /\ chain.balance >= task[i].lamports
  /\ chain' = [chain EXCEPT !.balance = @ - task[i].lamports]
  /\ Commit(i, donateOnConfirmed_memo(At(i), solana))
  /\ UNCHANGED solana

donateRejected_memo(i, e) ==
  /\ Pending(i, "m_d_sendAndConfirm")
  /\ Commit(i, donateCatch_memo(At(i), e))
  /\ UNCHANGED <<solana, chain>>

-----------------------------------------------------------------------------
(* The page *)

Next ==
  \/ checkIfWalletIsConnected
  \/ connectWallet
  \/ \E i \in 1..Len(task) : connectResolved(i)
  \/ \E i \in 1..Len(task) : connectRejected(i)
  \/ getCampaigns
  \/ \E i \in 1..Len(task) : getProgramAccountsResolved(i)
  \/ \E i \in 1..Len(task) : getProgramAccountsRejected(i)
  \/ \E i \in 1..Len(task) : campaignFetchSettled(i)
  \/ \E name \in NameInputs : createCampaign(name)
  \/ \E i \in 1..Len(task) : fetchNullableNull(i)
  \/ \E i \in 1..Len(task) : fetchNullableFound(i)
  \/ \E i \in 1..Len(task) : fetchNullableRejected(i)
  \/ \E i \in 1..Len(task) : ensureBalanceGetBalanceResolved(i)
  \/ \E i \in 1..Len(task) : ensureBalanceRejected(i)
  \/ \E i \in 1..Len(task) : requestAirdropResolved(i)
  \/ \E i \in 1..Len(task) : airdropConfirmed(i)
  \/ \E i \in 1..Len(task) : airdropTimerFired(i)
  \/ \E i \in 1..Len(task) : ensureBalanceDone(i)
  \/ \E i \in 1..Len(task) : latestBlockhashResolved(i)
  \/ \E i \in 1..Len(task) : beforeLoopRejected(i)
  \/ \E i \in 1..Len(task) : simulateResolved(i)
  \/ \E i \in 1..Len(task) : createConfirmed(i)
  \/ \E i \in 1..Len(task), e \in SendErrors : createRejected(i, e)
  \/ \E i \in 1..Len(task) : retryBlockhashResolved(i)
  \/ \E i \in 1..Len(task) : retryBlockhashRejected(i)
  \/ \E i \in 1..Len(task) : retryTimerFired(i)
  \/ \E k \in {AccountKeys[j] : j \in 1..Len(AccountKeys)}, v \in AmountInputs :
       donateToCampaign(k, v)
  \/ \E i \in 1..Len(task) : donateBalanceResolved(i)
  \/ \E i \in 1..Len(task) : donateBlockhashResolved(i)
  \/ \E i \in 1..Len(task) : donateRpcRejected(i)
  \/ \E i \in 1..Len(task) : donateConfirmed(i)
  \/ \E i \in 1..Len(task), e \in SendErrors : donateRejected(i, e)
  \/ walletDisconnects
  \/ checkIfWalletIsConnected_legacy
  \/ connectWallet_legacy
  \/ \E i \in 1..Len(task) : connectResolved_legacy(i)
  \/ \E i \in 1..Len(task) : connectRejected_legacy(i)
  \/ createCampaign_legacy
  \/ \E i \in 1..Len(task) : diagnosticsSettled(i)
  \/ \E i \in 1..Len(task) : rpcCreateResolved(i)
  \/ \E i \in 1..Len(task), e \in SendErrors : rpcCreateRejected(i, e)
  \/ \E i \in 1..Len(task) : retryBlockhashResolved_legacy(i)
  \/ \E i \in 1..Len(task) : retryInnerTryEnds(i)
  \/ \E i \in 1..Len(task) : retryTimerFired_legacy(i)
  \/ checkIfWalletIsConnected_memo
  \/ connectWallet_memo
  \/ \E i \in 1..Len(task) : connectResolved_memo(i)
  \/ \E i \in 1..Len(task) : connectRejected_memo(i)
  \/ getCampaigns_memo
  \/ \E i \in 1..Len(task) : getProgramAccountsResolved_memo(i)
  \/ \E i \in 1..Len(task) : getProgramAccountsRejected_memo(i)
  \/ \E i \in 1..Len(task) : campaignFetchSettled_memo(i)
  \/ \E name \in NameInputs : createCampaign_memo(name)
  \/ \E i \in 1..Len(task) : createBalanceResolved_memo(i)
  \/ \E i \in 1..Len(task) : createBlockhashResolved_memo(i)
  \/ \E i \in 1..Len(task) : createRpcRejected_memo(i)
  \/ \E i \in 1..Len(task) : createConfirmed_memo(i)
  \/ \E i \in 1..Len(task), e \in SendErrors : createRejected_memo(i, e)
  \/ \E k \in {AccountKeys[j] : j \in 1..Len(AccountKeys)}, v \in AmountInputs :
       donateToCampaign_memo(k, v)
  \/ \E i \in 1..Len(task) : donateBalanceResolved_memo(i)
  \/ \E i \in 1..Len(task) : donateBlockhashResolved_memo(i)
  \/ \E i \in 1..Len(task) : donateRpcRejected_memo(i)
  \/ \E i \in 1..Len(task) : donateConfirmed_memo(i)
  \/ \E i \in 1..Len(task), e \in SendErrors : donateRejected_memo(i, e)

Spec == Init /\ [][Next]_vars

\* an external call (or timer) that some invocation awaits returns or throws
Settle ==
  \/ \E i \in 1..Len(task) : connectResolved(i)
  \/ \E i \in 1..Len(task) : connectRejected(i)
  \/ \E i \in 1..Len(task) : getProgramAccountsResolved(i)
  \/ \E i \in 1..Len(task) : getProgramAccountsRejected(i)
  \/ \E i \in 1..Len(task) : campaignFetchSettled(i)
  \/ \E i \in 1..Len(task) : fetchNullableNull(i)
  \/ \E i \in 1..Len(task) : fetchNullableFound(i)
  \/ \E i \in 1..Len(task) : fetchNullableRejected(i)
  \/ \E i \in 1..Len(task) : ensureBalanceGetBalanceResolved(i)
  \/ \E i \in 1..Len(task) : ensureBalanceRejected(i)
  \/ \E i \in 1..Len(task) : requestAirdropResolved(i)
  \/ \E i \in 1..Len(task) : airdropConfirmed(i)
  \/ \E i \in 1..Len(task) : airdropTimerFired(i)
  \/ \E i \in 1..Len(task) : ensureBalanceDone(i)
  \/ \E i \in 1..Len(task) : latestBlockhashResolved(i)
  \/ \E i \in 1..Len(task) : beforeLoopRejected(i)
  \/ \E i \in 1..Len(task) : simulateResolved(i)
  \/ \E i \in 1..Len(task) : createConfirmed(i)
  \/ \E i \in 1..Len(task), e \in SendErrors : createRejected(i, e)
  \/ \E i \in 1..Len(task) : retryBlockhashResolved(i)
  \/ \E i \in 1..Len(task) : retryBlockhashRejected(i)
  \/ \E i \in 1..Len(task) : retryTimerFired(i)
  \/ \E i \in 1..Len(task) : donateBalanceResolved(i)
  \/ \E i \in 1..Len(task) : donateBlockhashResolved(i)
  \/ \E i \in 1..Len(task) : donateRpcRejected(i)
  \/ \E i \in 1..Len(task) : donateConfirmed(i)
  \/ \E i \in 1..Len(task), e \in SendErrors : donateRejected(i, e)
  \/ \E i \in 1..Len(task) : connectResolved_legacy(i)
  \/ \E i \in 1..Len(task) : connectRejected_legacy(i)
  \/ \E i \in 1..Len(task) : diagnosticsSettled(i)
  \/ \E i \in 1..Len(task) : rpcCreateResolved(i)
  \/ \E i \in 1..Len(task), e \in SendErrors : rpcCreateRejected(i, e)
  \/ \E i \in 1..Len(task) : retryBlockhashResolved_legacy(i)
  \/ \E i \in 1..Len(task) : retryInnerTryEnds(i)
  \/ \E i \in 1..Len(task) : retryTimerFired_legacy(i)
  \/ \E i \in 1..Len(task) : connectResolved_memo(i)
  \/ \E i \in 1..Len(task) : connectRejected_memo(i)
  \/ \E i \in 1..Len(task) : getProgramAccountsResolved_memo(i)
  \/ \E i \in 1..Len(task) : getProgramAccountsRejected_memo(i)
  \/ \E i \in 1..Len(task) : campaignFetchSettled_memo(i)
  \/ \E i \in 1..Len(task) : createBalanceResolved_memo(i)
  \/ \E i \in 1..Len(task) : createBlockhashResolved_memo(i)
  \/ \E i \in 1..Len(task) : createRpcRejected_memo(i)
  \/ \E i \in 1..Len(task) : createConfirmed_memo(i)
  \/ \E i \in 1..Len(task), e \in SendErrors : createRejected_memo(i, e)
  \/ \E i \in 1..Len(task) : donateBalanceResolved_memo(i)
  \/ \E i \in 1..Len(task) : donateBlockhashResolved_memo(i)
  \/ \E i \in 1..Len(task) : donateRpcRejected_memo(i)
  \/ \E i \in 1..Len(task) : donateConfirmed_memo(i)
  \/ \E i \in 1..Len(task), e \in SendErrors : donateRejected_memo(i, e)

\* every external call eventually returns or throws
SpecFair == Spec /\ WF_vars(Settle)

-----------------------------------------------------------------------------
(* donateToCampaign of page.tsx and of the memoized page, side by side:      *)
(* version is "pair", ui and task[1] are page.tsx's state and invocation,    *)
(* twin is the memoized page's.  Both start from the same state, get the     *)
(* same input, and every external call returns the same to both.             *)

\* the states in which a Donate button can be clicked: connected, the
\* campaigns listed, no donation or one to another campaign in flight
PairUis ==
  {[InitialUi EXCEPT !.walletStatus = "Phantom wallet found and connected!",
                     !.isWalletConnected = TRUE, !.publicKey = WalletKey,
                     !.campaigns = <<AccountKeys[2], AccountKeys[3]>>,
                     !.donatingCampaign = d] : d \in {Null, AccountKeys[3]}}

\* what the user may have left in the amount field
PairAmountInputs == AmountInputs \cup {"0.05", "1"}

InitPair ==
  /\ version = "pair"
  /\ ui \in PairUis
  /\ twin = Frame(ui, NoTask)
  /\ solana \in {SolanaIdle, SolanaConnected}
  /\ chain \in [balance : Balances, programAccounts : InitAccounts]
  /\ task = <<>>
  /\ started = 0
  /\ checks = 1
  /\ completed = NoTask

\* the two invocations after a step
Pair(fp, fm) ==
  /\ ui' = fp.ui
  /\ task' = <<fp.t>>
  /\ twin' = fm
  /\ UNCHANGED <<version, checks, completed>>

PairRunning == version = "pair" /\ started = 1
PageSide == Frame(ui, task[1])
PageAt(pc) == PageSide.t.pc = pc
TwinAt(pc) == twin.t.pc = pc

\* the same click on the Donate button of campaign k, with v in the field
donatePair(k, v) ==
  /\ version = "pair" /\ started = 0
  /\ Listed(k) /\ ~DonateDisabled(k)
  /\ started' = 1
  /\ LET u == onChangeDonationAmount(ui, v)
         f == [Frame(u, NewTask("donateToCampaign", u)) EXCEPT !.t.target = k]
     IN Pair(donateClick(f, k, solana), donateClick_memo(f, k, solana))
  /\ UNCHANGED <<solana, chain>>

balanceResolvedPair ==
  /\ PairRunning
  /\ PageAt("d_getBalance") \/ TwinAt("m_d_getBalance")
  /\ Pair(IF PageAt("d_getBalance") THEN donateOnBalance(PageSide, chain.balance)
          ELSE PageSide,
          IF TwinAt("m_d_getBalance") THEN donateOnBalance_memo(twin, chain.balance)
          ELSE twin)
  /\ UNCHANGED <<solana, chain, started>>

blockhashResolvedPair ==
  /\ PairRunning
  /\ PageAt("d_getLatestBlockhash") \/ TwinAt("m_d_getLatestBlockhash")
  /\ Pair(IF PageAt("d_getLatestBlockhash") THEN donateOnBlockhash(PageSide) ELSE PageSide,
          IF TwinAt("m_d_getLatestBlockhash") THEN donateOnBlockhash_memo(twin) ELSE twin)
  /\ UNCHANGED <<solana, chain, started>>

rpcRejectedPair ==
  /\ PairRunning
  /\ \/ PageAt("d_getBalance") \/ TwinAt("m_d_getBalance")
     \/ PageAt("d_getLatestBlockhash") \/ TwinAt("m_d_getLatestBlockhash")
  /\ Pair(IF PageAt("d_getBalance") \/ PageAt("d_getLatestBlockhash")
          THEN donateCatch(PageSide, ErrRpc) ELSE PageSide,
          IF TwinAt("m_d_getBalance") \/ TwinAt("m_d_getLatestBlockhash")
          THEN donateCatch_memo(twin, ErrRpc) ELSE twin)
  /\ UNCHANGED <<solana, chain, started>>

confirmedPair ==
  /\ PairRunning
  /\ PageAt("sendAndConfirm") \/ TwinAt("m_d_sendAndConfirm")
  /\ chain.balance >= task[1].lamports
  /\ chain' = [chain EXCEPT !.balance = @ - task[1].lamports]
  /\ Pair(IF PageAt("sendAndConfirm") THEN donateOnConfirmed(PageSide, solana) ELSE PageSide,
          IF TwinAt("m_d_sendAndConfirm") THEN donateOnConfirmed_memo(twin, solana) ELSE twin)
  /\ UNCHANGED <<solana, started>>

rejectedPair(e) ==
  /\ PairRunning
  /\ PageAt("sendAndConfirm") \/ TwinAt("m_d_sendAndConfirm")
  /\ Pair(IF PageAt("sendAndConfirm") THEN donateCatch(PageSide, e) ELSE PageSide,
          IF TwinAt("m_d_sendAndConfirm") THEN donateCatch_memo(twin, e) ELSE twin)
  /\ UNCHANGED <<solana, chain, started>>

programAccountsResolvedPair ==
  /\ PairRunning
  /\ PageAt("gc_getProgramAccounts") \/ TwinAt("m_getProgramAccounts")
  /\ Pair(IF PageAt("gc_getProgramAccounts")
          THEN gcOnAccounts(PageSide, chain.programAccounts) ELSE PageSide,
          IF TwinAt("m_getProgramAccounts")
          THEN gcOnAccounts_memo(twin, chain.programAccounts) ELSE twin)
  /\ UNCHANGED <<solana, chain, started>>

programAccountsRejectedPair ==
  /\ PairRunning
  /\ PageAt("gc_getProgramAccounts") \/ TwinAt("m_getProgramAccounts")
  /\ Pair(IF PageAt("gc_getProgramAccounts") THEN gcCatch(PageSide, ErrRpc) ELSE PageSide,
          IF TwinAt("m_getProgramAccounts") THEN gcCatch(twin, ErrRpc) ELSE twin)
  /\ UNCHANGED <<solana, chain, started>>

campaignFetchSettledPair ==
  /\ PairRunning
  /\ PageAt("gc_fetch") \/ TwinAt("m_fetchAll")
  /\ Pair(IF PageAt("gc_fetch") THEN gcOnFetch(PageSide) ELSE PageSide,
          IF TwinAt("m_fetchAll") THEN gcOnFetch_memo(twin) ELSE twin)
  /\ UNCHANGED <<solana, chain, started>>

\* the user disconnects the site in the extension while the donation runs
walletDisconnectsPair ==
  /\ PairRunning
  /\ ~PageAt("done") \/ ~TwinAt("done")
  /\ solana.isConnected
  /\ solana' = SolanaIdle
  /\ UNCHANGED <<version, ui, chain, task, started, checks, completed, twin>>

NextPair ==
  \/ \E k \in {AccountKeys[j] : j \in 1..Len(AccountKeys)}, v \in PairAmountInputs :
       donatePair(k, v)
  \/ balanceResolvedPair
  \/ blockhashResolvedPair
  \/ rpcRejectedPair
  \/ confirmedPair
  \/ \E e \in SendErrors : rejectedPair(e)
  \/ programAccountsResolvedPair
  \/ programAccountsRejectedPair
  \/ campaignFetchSettledPair
  \/ walletDisconnectsPair

SpecPair == InitPair /\ [][NextPair]_vars

-----------------------------------------------------------------------------
(* The connected page with two campaigns listed, each with its own amount    *)
(* field and Donate button: the donations and the refreshes of the user.     *)

\* the program's accounts: the second is not a campaign (its data does not
\* decode)
ListedAccounts ==
  <<Account(AccountKeys[1], TRUE), Account(AccountKeys[2], FALSE),
    Account(AccountKeys[3], TRUE)>>

\* the page after a connection and a fetch of ListedAccounts
ListedUi ==
  [InitialUi EXCEPT !.walletStatus = "Phantom wallet found and connected!",
                    !.isWalletConnected = TRUE, !.publicKey = WalletKey,
                    !.campaigns = Decoded(ListedAccounts)]

InitListed ==
  /\ version \in {"page", "memo"}
  /\ ui = ListedUi
  /\ solana = SolanaConnected
  /\ chain \in [balance : Balances, programAccounts : {ListedAccounts}]
  /\ task = <<>>
  /\ started = 0
  /\ checks = 2
  /\ completed = NoTask
  /\ twin = NoTwin

NextListed ==
  \/ getCampaigns
  \/ \E i \in 1..Len(task) : getProgramAccountsResolved(i)
  \/ \E i \in 1..Len(task) : getProgramAccountsRejected(i)
  \/ \E i \in 1..Len(task) : campaignFetchSettled(i)
  \/ \E k \in {AccountKeys[j] : j \in 1..MaxAccounts}, v \in AmountInputs :
       donateToCampaign(k, v)
  \/ \E i \in 1..Len(task) : donateBalanceResolved(i)
  \/ \E i \in 1..Len(task) : donateBlockhashResolved(i)
  \/ \E i \in 1..Len(task) : donateRpcRejected(i)
  \/ \E i \in 1..Len(task) : donateConfirmed(i)
  \/ \E i \in 1..Len(task), e \in SendErrors : donateRejected(i, e)
  \/ getCampaigns_memo
  \/ \E i \in 1..Len(task) : getProgramAccountsResolved_memo(i)
  \/ \E i \in 1..Len(task) : getProgramAccountsRejected_memo(i)
  \/ \E i \in 1..Len(task) : campaignFetchSettled_memo(i)
  \/ \E k \in {AccountKeys[j] : j \in 1..MaxAccounts}, v \in AmountInputs :
       donateToCampaign_memo(k, v)
  \/ \E i \in 1..Len(task) : donateBalanceResolved_memo(i)
  \/ \E i \in 1..Len(task) : donateBlockhashResolved_memo(i)
  \/ \E i \in 1..Len(task) : donateRpcRejected_memo(i)
  \/ \E i \in 1..Len(task) : donateConfirmed_memo(i)
  \/ \E i \in 1..Len(task), e \in SendErrors : donateRejected_memo(i, e)
  \/ walletDisconnects

SpecListed == InitListed /\ [][NextListed]_vars

-----------------------------------------------------------------------------
(* Properties *)

InFlight == {task[i] : i \in 1..Len(task)}
Invocations == InFlight \cup {completed}
Creates == {t \in Invocations : t.kind = "createCampaign"}
Donations == {t \in Invocations : t.kind = "donateToCampaign"}
Submitting(t) == t.pc \in {"sendAndConfirm", "l_rpcCreate"}
StartsWith(s, p) == Len(s) >= Len(p) /\ SubSeq(s, 1, Len(p)) = p
Blank(s) == \A i \in 1..Len(s) : Char(s, i) = " "
NotPositive(s) == LET v == parseFloat(s) IN v.nan \/ v.neg \/ v.m = 0

\* C1: one createCampaign invocation submits the create transaction at most
\* 4 times, and every submission after the first is made while the error of
\* the attempt before it is a 'Blockhash not found' or 'blockhash expired'
\* error (so none follows a success or another kind of failure).
C1_BoundedRetry ==
  \A t \in Creates :
    /\ t.submits <= 4
    /\ t.submits = t.attempt
    /\ (Submitting(t) /\ t.submits >= 2) =>
         \/ Includes(t.cause.message, "Blockhash not found")
         \/ Includes(t.cause.message, "blockhash expired")
    /\ (Submitting(t) /\ t.submits = 1) => t.cause = NoError

\* C1 witness: an invocation that has used all four attempts and failed
C1_Witness ==
  completed.kind = "createCampaign" /\ completed.submits = 4
  /\ completed.result = "failed"

\* C2 as stated: every wait of the retry loop has the same duration
C2_FixedBackoff ==
  \A t \in Creates : \A j, k \in DOMAIN t.waits : t.waits[j] = t.waits[k]

\* C2 as amended: the wait after the k-th failed attempt is 800 * k ms
C2_LinearBackoff ==
  \A t \in Creates : \A k \in DOMAIN t.waits : t.waits[k] = 800 * k

\* C2 witness: an invocation that has waited three times
C2_Witness == \E t \in Creates : Len(t.waits) = 3

\* C3: in page.tsx every submission is made with a recentBlockhash that was
\* fetched after the failure of the attempt before it
C3_FreshBlockhash ==
  \A t \in Creates : (version = "page" /\ Submitting(t)) => t.bhFresh

\* C3 witness: a second submission is pending
C3_Witness ==
  \E t \in Creates : version = "page" /\ Submitting(t) /\ t.attempt >= 2

\* C4: ensureBalance requests an airdrop iff the balance it read is strictly
\* below minLamports, at most once, and for exactly minLamports
C4_AirdropIffBelow ==
  \A t \in Creates :
    /\ Len(t.airdrops) <= 1
    /\ t.airdrops # <<>> <=> (t.balRead # -1 /\ t.balRead < thresholdLamports)
    /\ \A k \in DOMAIN t.airdrops : t.airdrops[k] = thresholdLamports

\* C4 witness: an airdrop has been requested
C4_Witness == \E t \in Creates : t.airdrops # <<>> /\ t.pc = "eb_requestAirdrop"

\* C5: when createCampaign goes on from ensureBalance, the wallet holds at
\* least the 0.1 SOL threshold
C5_BalanceEnsured ==
  \A t \in Creates : t.balAtSubmit # -1 => t.balAtSubmit >= thresholdLamports

\* C6: the handler that marks the page connected lists the campaigns: its
\* getCampaigns call fetches the program's accounts and sets campaigns
C6_ListedOnConnect ==
  (/\ version = "page"
   /\ completed.kind \in {"connectWallet", "checkIfWalletIsConnected"}
   /\ completed.result = "connected")
  => completed.gc = "listed"

\* C7 as stated: after a confirmed create or donate the handler's
\* getCampaigns call fetches and replaces campaigns with the fetched accounts
C7_RefreshedAfterConfirm ==
  (/\ version = "page"
   /\ completed.kind \in {"createCampaign", "donateToCampaign"}
   /\ completed.result = "confirmed")
  => completed.gc = "listed" /\ ui.campaigns = completed.data

\* C7 as amended: the call does not return early; it replaces campaigns with
\* the accounts that decode when getProvider and getProgramAccounts succeed,
\* and otherwise leaves walletStatus at 'Error fetching campaigns: ...'
C7_RefreshAttempted ==
  (/\ version = "page"
   /\ completed.kind \in {"createCampaign", "donateToCampaign"}
   /\ completed.result = "confirmed")
  => \/ /\ completed.gc = "listed"
        /\ ui.campaigns = completed.data
        /\ completed.data = Decoded(completed.accts)
     \/ /\ completed.gc = "error"
        /\ StartsWith(ui.walletStatus, "Error fetching campaigns: ")

\* C7 witness: a confirmed create has refreshed the list
C7_Witness ==
  /\ completed.kind = "createCampaign" /\ completed.result = "confirmed"
  /\ completed.gc = "listed" /\ Len(ui.campaigns) >= 2

\* C8: donateToCampaign with an amount that is not a number or is <= 0
\* submits nothing, reports 'Please enter a valid donation amount' and does
\* not mark the campaign as being donated to
C8_InvalidAmountRejected ==
  /\ \A t \in InFlight : t.kind = "donateToCampaign" => ~NotPositive(t.cAmount)
  /\ (completed.kind = "donateToCampaign" /\ NotPositive(completed.cAmount)) =>
       /\ completed.submits = 0
       /\ ui.walletStatus = "Please enter a valid donation amount"
       /\ ui.donatingCampaign # completed.target

\* C8 witness: a donation of "0" has returned
C8_Witness == completed.kind = "donateToCampaign" /\ completed.cAmount = "0"

\* C9: donateToCampaign submits only when the balance it read covers the
\* donation; otherwise it submits nothing and reports the insufficient balance
C9_BalanceCoversDonation ==
  /\ \A t \in InFlight :
       (t.kind = "donateToCampaign" /\ t.balRead # -1) => t.balRead >= t.lamports
  /\ \A t \in Donations : t.submits > 0 => (t.balRead # -1 /\ t.balRead >= t.lamports)
  /\ (completed.kind = "donateToCampaign" /\ completed.balRead # -1
      /\ completed.balRead < completed.lamports) =>
       /\ completed.submits = 0
       /\ StartsWith(ui.walletStatus, "Error donating to campaign: Insufficient balance")

\* C9 witness: a donation larger than the balance has returned
C9_Witness ==
  /\ completed.kind = "donateToCampaign" /\ completed.balRead # -1
  /\ completed.balRead < completed.lamports

\* C10: createCampaign with a blank name submits nothing, reports 'Please
\* enter a campaign name' and leaves creatingCampaign false
C10_BlankNameRejected ==
  version = "page" =>
    /\ \A t \in InFlight : t.kind = "createCampaign" => ~Blank(t.cName)
    /\ (completed.kind = "createCampaign" /\ Blank(completed.cName)) =>
         /\ completed.submits = 0
         /\ ui.walletStatus = "Please enter a campaign name"
         /\ ~ui.creatingCampaign

\* C10 witness: a create with a name of two spaces has returned
C10_Witness ==
  version = "page" /\ completed.kind = "createCampaign" /\ completed.cName = "  "

SuccessCreate(s) == StartsWith(s, "Campaign created successfully!")
SuccessDonate(s) == StartsWith(s, "Successfully donated ")
NotConnectedMessage == "Wallet is not connected. Please connect the wallet first."

\* walletStatus reports error e of a createCampaign or donateToCampaign
Reports(kind, e, s) ==
  \/ /\ kind = "createCampaign"
     /\ \/ s = "Error creating campaign: " \o e.message
        \/ /\ Includes(e.message, "User rejected")
           /\ s \in {"Transaction cancelled by user. Please approve the transaction in your wallet.",
                    "Transaction cancelled by user."}
        \/ /\ e.name = "AnchorError"
           /\ StartsWith(s, "Error creating campaign: DeclaredProgramIdMismatch.")
  \/ /\ kind = "donateToCampaign"
     /\ \/ s = "Error donating to campaign: " \o e.message
        \/ Includes(e.message, "User rejected") /\ s = "Donation cancelled by user."

\* C12, the steps: a step that changes walletStatus to a success message
\* belongs to an invocation of that kind with a confirmed submission
C12_SuccessStep ==
  /\ (SuccessCreate(ui'.walletStatus) /\ ui'.walletStatus # ui.walletStatus) =>
       \E t \in Invocations' : t.kind = "createCampaign" /\ t.confirms >= 1
  /\ (SuccessDonate(ui'.walletStatus) /\ ui'.walletStatus # ui.walletStatus) =>
       \E t \in Invocations' : t.kind = "donateToCampaign" /\ t.confirms >= 1

\* C12, the states: an invocation reaches its success line only with a
\* confirmed submission; one whose submissions all failed returns with the
\* last error in walletStatus (the failed submission's, or the error of the
\* blockhash refresh that ended the loop) and no success message
C12_SuccessState ==
  /\ \A t \in Creates \cup Donations : t.result = "confirmed" => t.confirms >= 1
  /\ (/\ completed.kind \in {"createCampaign", "donateToCampaign"}
      /\ completed.submits >= 1 /\ completed.confirms = 0) =>
       /\ ~SuccessCreate(ui.walletStatus) /\ ~SuccessDonate(ui.walletStatus)
       /\ \/ Reports(completed.kind, completed.lastErr, ui.walletStatus)
          \/ Reports(completed.kind, ErrRpc, ui.walletStatus)
          \/ \E e \in SendErrors : completed.kind = "donateToCampaign"
                                   /\ Reports(completed.kind, e, ui.walletStatus)

\* C12: walletStatus becomes 'Campaign created successfully!' only in a
\* createCampaign invocation with a confirmed submission, 'Successfully
\* donated ...' only in a donateToCampaign invocation whose transaction was
\* confirmed; when every submission fails the last error is reported and no
\* success message is set
C12_SuccessOnlyWhenConfirmed == [](C12_SuccessState) /\ [][C12_SuccessStep]_vars

\* C12 witness: a create confirmed on a retry has set the success message
C12_Witness ==
  \E t \in Creates : t.confirms = 1 /\ t.submits >= 2 /\ SuccessCreate(ui.walletStatus)

\* C13: in page.tsx a create or donate transaction is submitted only by an
\* invocation whose closure has isWalletConnected true and a publicKey and
\* whose getProvider found the extension to be Phantom, connected and with a
\* public key; an invocation that finds the extension disconnected returns
\* with the 'Wallet is not connected...' error and has submitted nothing
C13_WalletGuards ==
  version = "page" =>
    /\ \A t \in Creates \cup Donations :
         (t.submits > 0 \/ (t \in InFlight /\ t.result = "")) =>
           /\ t.cConnected /\ t.cKey # Null
           /\ t.seen.isPhantom /\ t.seen.isConnected /\ t.seen.publicKey # Null
    /\ (/\ completed.kind \in {"createCampaign", "donateToCampaign"}
        /\ completed.seen.isPhantom /\ ~completed.seen.isConnected) =>
         /\ completed.submits = 0
         /\ ui.walletStatus =
              (IF completed.kind = "createCampaign" THEN "Error creating campaign: "
               ELSE "Error donating to campaign: ") \o NotConnectedMessage

\* C13 witness: a create started after the extension disconnected has returned
C13_Witness ==
  /\ version = "page" /\ completed.kind = "createCampaign" /\ completed.cConnected
  /\ completed.seen.isPhantom /\ ~completed.seen.isConnected

\* C14: in page.tsx a createCampaign that finds an account at the campaign
\* address submits nothing, requests no airdrop, reports 'Campaign already
\* exists! ...', leaves the form fields as they were and returns with
\* creatingCampaign false
C14_ExistingCampaign ==
  version = "page" =>
    /\ \A t \in InFlight : ~t.existing
    /\ (completed.kind = "createCampaign" /\ completed.existing) =>
         /\ completed.submits = 0
         /\ completed.airdrops = <<>>
         /\ ui.walletStatus = "Campaign already exists! Please try a different name."
         /\ ui.campaignName = completed.cName
         /\ ui.campaignDescription = completed.cDesc
         /\ ~ui.creatingCampaign

\* C14 witness: such a create has returned
C14_Witness == version = "page" /\ completed.kind = "createCampaign" /\ completed.existing

\* what C11 compares
DonationView(u) ==
  [walletStatus |-> u.walletStatus, donatingCampaign |-> u.donatingCampaign,
   donationAmount |-> u.donationAmount]

BothReturned == PairRunning /\ PageAt("done") /\ TwinAt("done")

\* C11 as stated: the two donateToCampaign, started in the same state with
\* the same input and given the same outcomes, return leaving the same
\* walletStatus, donatingCampaign and donationAmount
C11_SameDonationFlow == BothReturned => DonationView(ui) = DonationView(twin.ui)

\* C11 as amended: they agree at every step when the amount is a positive
\* number; when it is not, both return at once with the same walletStatus,
\* page.tsx having reset donatingCampaign to null and donationAmount to '0.1'
\* and the memoized page having left both as they were
C11_SameAfterValidation ==
  PairRunning =>
    LET t == task[1]
    IN /\ (t.pc = "done") = TwinAt("done")
       /\ ~NotPositive(t.cAmount) => DonationView(ui) = DonationView(twin.ui)
       /\ NotPositive(t.cAmount) =>
            /\ BothReturned
            /\ ui.walletStatus = twin.ui.walletStatus
            /\ ui.donatingCampaign = Null /\ ui.donationAmount = "0.1"
            /\ twin.ui.donationAmount = t.cAmount
            /\ twin.ui.donatingCampaign \in {Null, AccountKeys[3]}
            /\ t.submits = 0 /\ twin.t.submits = 0

\* C11 witness: both donations were confirmed and both lists refreshed
C11_Witness ==
  /\ BothReturned /\ task[1].confirms = 1 /\ twin.t.confirms = 1
  /\ task[1].gc = "listed" /\ twin.t.gc = "listed"

CreateInFlight ==
  version \in {"page", "memo"} /\ \E t \in InFlight : t.kind = "createCampaign"

CreateReturned == completed.kind = "createCampaign" /\ ~ui.creatingCampaign

\* C15: when every external call eventually returns or throws, a
\* createCampaign invocation that has set creatingCampaign and awaits a call
\* eventually returns, with creatingCampaign false in the state it leaves
\* (one that throws before its first await returns at once, likewise)
C15_CreatingEventuallyFalse ==
  /\ CreateInFlight ~> CreateReturned
  /\ []((version \in {"page", "memo"} /\ completed.kind = "createCampaign")
          => ~ui.creatingCampaign)
  /\ [](CreateInFlight => ui.creatingCampaign)

\* C15 witness: the memoized createCampaign has returned early from its
\* balance check
C15_Witness ==
  /\ version = "memo" /\ completed.kind = "createCampaign"
  /\ completed.result = "insufficient" /\ ~ui.creatingCampaign

\* the donations that have passed validation and have not returned
DonationsInFlight == {t \in InFlight : t.kind = "donateToCampaign"}

\* C16: while a donation is in flight, donatingCampaign is the key of a
\* campaign that has a donation in flight, also when donations to two
\* different campaigns overlap
C16_DonatingIsInFlight ==
  (version \in {"page", "memo"} /\ DonationsInFlight # {}) =>
    \E t \in DonationsInFlight : ui.donatingCampaign = t.target

\* the invocations that await a call of a getCampaigns fetch, their own
\* (Refresh) or the one createCampaign and donateToCampaign make at the end
FetchesInFlight ==
  {t \in InFlight : t.pc \in {"gc_getProgramAccounts", "gc_fetch",
                               "m_getProgramAccounts", "m_fetchAll"}}

\* C17: loading is true while a getCampaigns fetch is in flight, also when
\* the fetches of Refresh, createCampaign and donateToCampaign overlap
C17_LoadingWhileFetching ==
  (version \in {"page", "memo"} /\ FetchesInFlight # {}) => ui.loading

\* the invocation that has just returned ran a fetch to its setCampaigns
Listing == version \in {"page", "memo"} /\ completed.gc = "listed"

C18_LastState == Listing => ui.campaigns = completed.data

C18_LastStep ==
  (version \in {"page", "memo"} /\ ui.campaigns' # ui.campaigns) => Listing'

\* C18: fetches are not coordinated: a fetch that completes sets campaigns to
\* its own result whatever the list held, and nothing else changes campaigns,
\* so after overlapping fetches campaigns is the result of the one that
\* completed last, also when it started first and its result is older
C18_LastCompletedWins ==
  []C18_LastState /\ [][C18_LastStep]_vars

\* C18 witness: a Refresh that read the account list before a campaign was
\* created completes after the fetch that createCampaign started on its
\* confirmation, and replaces that fetch's list, which has the new campaign,
\* by its own, which has not
C18_Witness ==
  /\ Listing /\ completed.kind = "getCampaigns" /\ task = <<>>
  /\ Len(completed.accts) < Len(chain.programAccounts)
  /\ completed.prev = Decoded(chain.programAccounts)
  /\ completed.data # completed.prev
  /\ ui.campaigns = completed.data

\* C19: a fetch that obtained the account list sets campaigns to the accounts
\* of the list whose data was fetched and decoded, in the order of the list;
\* an account that fails is left out and the fetch goes on with the others
C19_ListsDecodable ==
  Listing =>
    /\ ui.campaigns = Decoded(completed.accts)
    /\ \A j \in 1..Len(completed.accts) :
         completed.accts[j].decodes <=> Listed(completed.accts[j].pubkey)

\* C19 witness: the second of three accounts failed to decode, and the first
\* and the third are listed, in that order
C19_Witness ==
  /\ Listing /\ Len(completed.accts) = 3
  /\ ~completed.accts[2].decodes
  /\ ui.campaigns = <<completed.accts[1].pubkey, completed.accts[3].pubkey>>

=============================================================================
